---- MODULE Spec2Model ----
(***************************************************************************)
(* A model of roperator's src/config.rs: the K8sType resource identity,    *)
(* the OperatorConfig fluent builder and the in-cluster credential         *)
(* resolver ClientConfig::from_service_account.                            *)
(*                                                                         *)
(* Rust Strings are TLA+ strings, concatenated with \o.  Option and Result *)
(* are tagged tuples.  Three specifications share the variables, one per   *)
(* component; each leaves the other components' variables untouched.       *)
(* Definitions marked "fault variant" are wrong implementations, used to   *)
(* show that a property depends on the code it is about.                   *)
(***************************************************************************)
EXTENDS Integers, Sequences, FiniteSets, TLC

VARIABLES
    called,     \* the last call made: [op |-> name, args |-> arguments]
    ktype,      \* Option<K8sType>: the K8sType value under construction/use
    text,       \* Option<String>: what the last format_api_version/fmt returned
    fs,         \* the service-account volume as the process finds it
    result,     \* Result<ClientConfig, io::Error> of from_service_account
    io,         \* the filesystem accesses made by from_service_account
    config,     \* the OperatorConfig being built
    replaced    \* Option<ChildConfig>: what HashMap::insert returned last

vars == <<called, ktype, text, fs, result, io, config, replaced>>

----------------------------------------------------------------------------
(* Bounds of the model *)

\* longest generated string
MaxStrLen == 1
\* most entries child_types grows to
MaxChildren == 2

----------------------------------------------------------------------------
(* Rust's Option, Result and String helpers *)

None == <<"None">>
Some(v) == <<"Some", v>>
IsSome(o) == o[1] = "Some"
Unwrap(o) == o[2]

Ok(v) == <<"Ok", v>>
Err(e) == <<"Err", e>>
IsOk(r) == r[1] = "Ok"
IsErr(r) == r[1] = "Err"

\* str::is_empty
is_empty(s) == Len(s) = 0

\* format!/write! with a template cut at its {} holes: pieces[1] args[1]
\* pieces[2] args[2] ... pieces[n+1]
RECURSIVE Format(_, _)
Format(pieces, args) ==
    IF args = <<>> THEN pieces[1]
    ELSE pieces[1] \o args[1] \o Format(Tail(pieces), Tail(args))

RECURSIVE Repeat(_, _)
Repeat(s, n) == IF n = 0 THEN "" ELSE s \o Repeat(s, n - 1)

\* the strings the inputs are drawn from
Generated == {Repeat("a", n) : n \in 0..MaxStrLen}
Texts == Generated \cup {"v1", "Pod", "pods"}

NoCall == [op |-> "none", args |-> <<>>]
Call(op, args) == [op |-> op, args |-> args]

----------------------------------------------------------------------------
(* K8sType *)

\* fn v1() -> String
v1 == "v1"

\* fault variant of K8sType::new: kind and plural_kind crossed, as the
\* struct's field order (plural_kind before kind) invites
K8sTypeNewSwapped(group, version, kind, plural_kind) ==
    [group |-> group, version |-> version,
     plural_kind |-> kind, kind |-> plural_kind]

\* K8sType::new
K8sTypeNew(group, version, kind, plural_kind) ==
    [group |-> group, version |-> version,
     kind |-> kind, plural_kind |-> plural_kind]

\* K8sType::pod
pod == [group |-> "", version |-> v1, plural_kind |-> "pods", kind |-> "Pod"]

\* fault variant of K8sType::service: plural_kind left as String::new()
serviceNoPlural ==
    [group |-> "", version |-> v1, plural_kind |-> "", kind |-> "Service"]

\* K8sType::service
service ==
    [group |-> "", version |-> v1, plural_kind |-> "services", kind |-> "Service"]

\* fault variant of format_api_version: the empty-group branch is missing
format_api_version_always_group(self) ==
    Format(<<"", "/", "">>, <<self.group, self.version>>)

\* K8sType::format_api_version
format_api_version(self) ==
    IF is_empty(self.group)
    THEN self.version
    ELSE Format(<<"", "/", "">>, <<self.group, self.version>>)

\* fault variant of Display: renders kind where plural_kind belongs
fmt_kind(self) ==
    IF is_empty(self.group)
    THEN Format(<<"", "/", "">>, <<self.version, self.kind>>)
    ELSE Format(<<"", "/", "/", "">>, <<self.group, self.version, self.kind>>)

\* impl Display for K8sType
fmt(self) ==
    IF is_empty(self.group)
    THEN Format(<<"", "/", "">>, <<self.version, self.plural_kind>>)
    ELSE Format(<<"", "/", "/", "">>,
                <<self.group, self.version, self.plural_kind>>)

\* fault variant of the key equality: compares the REST path fields only
K8sTypeEqIgnoringKind(a, b) ==
    /\ a.group = b.group
    /\ a.version = b.version
    /\ a.plural_kind = b.plural_kind

\* #[derive(PartialEq, Eq, Hash)] on K8sType: all four fields
K8sTypeEq(a, b) ==
    /\ a.group = b.group
    /\ a.version = b.version
    /\ a.plural_kind = b.plural_kind
    /\ a.kind = b.kind

----------------------------------------------------------------------------
(* ChildConfig and OperatorConfig *)

DEFAULT_TRACKING_LABEL_NAME == "app.kubernetes.io/instance"
DEFAULT_OWNERSHIP_LABEL_NAME == "app.kubernetes.io/managed-by"

\* ChildConfig::new
ChildConfigNew(update_strategy) == [update_strategy |-> update_strategy]
recreate == ChildConfigNew("Recreate")
replace == ChildConfigNew("Replace")
on_delete == ChildConfigNew("OnDelete")
ChildConfigs == {recreate, replace, on_delete}

\* HashMap<K8sType, ChildConfig> is the set of its entries; the key
\* comparison is K8sType's derived equality.
HashMapNew == {}

HashMapGet(map, k) ==
    LET hits == {e \in map : K8sTypeEq(e.key, k)}
    IN  IF hits = {} THEN None ELSE Some((CHOOSE e \in hits : TRUE).value)

\* fault variant of insert: an equal key's old entry is kept beside the new
HashMapInsertNoReplace(map, k, v) == map \cup {[key |-> k, value |-> v]}

\* HashMap::insert: the entry for an equal key is replaced
HashMapInsert(map, k, v) ==
    {e \in map : ~K8sTypeEq(e.key, k)} \cup {[key |-> k, value |-> v]}

\* fault variant of OperatorConfig::new: expose_health defaults to false
OperatorConfigNewHealthOff(operator_name, parent) ==
    [parent |-> parent,
     operator_name |-> operator_name,
     child_types |-> HashMapNew,
     namespace |-> None,
     tracking_label_name |-> DEFAULT_TRACKING_LABEL_NAME,
     ownership_label_name |-> DEFAULT_OWNERSHIP_LABEL_NAME,
     server_port |-> 8080,
     expose_metrics |-> TRUE,
     expose_health |-> FALSE]

\* OperatorConfig::new
OperatorConfigNew(operator_name, parent) ==
    [parent |-> parent,
     operator_name |-> operator_name,
     child_types |-> HashMapNew,
     namespace |-> None,
     tracking_label_name |-> DEFAULT_TRACKING_LABEL_NAME,
     ownership_label_name |-> DEFAULT_OWNERSHIP_LABEL_NAME,
     server_port |-> 8080,
     expose_metrics |-> TRUE,
     expose_health |-> TRUE]

\* OperatorConfig::within_namespace
within_namespace(self, namespace) == [self EXCEPT !.namespace = Some(namespace)]

\* OperatorConfig::with_child
with_child(self, child_type, child_config) ==
    [self EXCEPT !.child_types = HashMapInsert(@, child_type, child_config)]

\* OperatorConfig::expose_health
expose_health(self, flag) == [self EXCEPT !.expose_health = flag]

\* OperatorConfig::expose_metrics
expose_metrics(self, flag) == [self EXCEPT !.expose_metrics = flag]

\* OperatorConfig::server_port
server_port(self, port) == [self EXCEPT !.server_port = port]

----------------------------------------------------------------------------
(* ClientConfig::from_service_account *)

SERVICE_ACCOUNT_TOKEN_PATH == "/var/run/secrets/kubernetes.io/serviceaccount/token"
SERVICE_ACCOUNT_CA_PATH == "/var/run/secrets/kubernetes.io/serviceaccount/ca.crt"
API_SERVER_HOSTNAME == "kubernetes.default.svc"

\* A file of the volume: status is "Ok" (readable text), "NotFound",
\* "PermissionDenied" (exists, open fails) or "InvalidData" (opens, but is
\* not UTF-8 text, so read_to_string fails).
File(status, contents) == [status |-> status, contents |-> contents]

\* std::fs::File::open
FileOpen(filesystem, path) ==
    IF filesystem[path].status \in {"NotFound", "PermissionDenied"}
    THEN Err(filesystem[path].status)
    ELSE Ok(path)

\* std::io::Read::read_to_string into an empty String
ReadToString(filesystem, path) ==
    IF filesystem[path].status = "Ok"
    THEN Ok(filesystem[path].contents)
    ELSE Err(filesystem[path].status)

\* std::path::Path::exists
PathExists(filesystem, path) == filesystem[path].status # "NotFound"

\* fault variant of the token read: a failure is swallowed
\* (unwrap_or_default) and the token is empty
TokenReadOrDefault(filesystem) ==
    LET token_file == FileOpen(filesystem, SERVICE_ACCOUNT_TOKEN_PATH)
        contents == ReadToString(filesystem, SERVICE_ACCOUNT_TOKEN_PATH)
    IN  IF IsErr(token_file) \/ IsErr(contents) THEN Ok("") ELSE contents

\* let mut token_file = File::open(..)?; token_file.read_to_string(..)?;
TokenRead(filesystem) ==
    LET token_file == FileOpen(filesystem, SERVICE_ACCOUNT_TOKEN_PATH)
    IN  IF IsErr(token_file)
        THEN token_file
        ELSE ReadToString(filesystem, Unwrap(token_file))

\* fault variant of the CA check: tests that the file opens, not that it exists
CaDataIfReadable(filesystem) ==
    IF IsOk(FileOpen(filesystem, SERVICE_ACCOUNT_CA_PATH))
    THEN Some(<<"File", SERVICE_ACCOUNT_CA_PATH>>)
    ELSE None

\* let ca_data = if ca_file_path.exists() { Some(CAData::File(..)) } else { None };
CaData(filesystem) ==
    IF PathExists(filesystem, SERVICE_ACCOUNT_CA_PATH)
    THEN Some(<<"File", SERVICE_ACCOUNT_CA_PATH>>)
    ELSE None

\* str::trim_end on a trailing newline
TrimEnd(s) ==
    IF Len(s) > 0 /\ SubSeq(s, Len(s), Len(s)) = "\n"
    THEN SubSeq(s, 1, Len(s) - 1)
    ELSE s

\* fault variant of the ClientConfig built: the token is trimmed
BuildClientConfigTrimmed(service_account_token, ca_data, user_agent) ==
    [api_server_endpoint |-> Format(<<"https://", "">>, <<API_SERVER_HOSTNAME>>),
     ca_data |-> ca_data,
     credentials |->
        <<"Header", Format(<<"Bearer ", "">>, <<TrimEnd(service_account_token)>>)>>,
     user_agent |-> user_agent,
     verify_ssl_certs |-> TRUE,
     impersonate |-> None,
     impersonate_groups |-> <<>>]

\* the ClientConfig from_service_account assembles
BuildClientConfig(service_account_token, ca_data, user_agent) ==
    [api_server_endpoint |-> Format(<<"https://", "">>, <<API_SERVER_HOSTNAME>>),
     ca_data |-> ca_data,
     credentials |->
        <<"Header", Format(<<"Bearer ", "">>, <<service_account_token>>)>>,
     user_agent |-> user_agent,
     verify_ssl_certs |-> TRUE,
     impersonate |-> None,
     impersonate_groups |-> <<>>]

\* ClientConfig::from_service_account
from_service_account(filesystem, user_agent) ==
    LET service_account_token == TokenRead(filesystem)
    IN  IF IsErr(service_account_token)
        THEN service_account_token
        ELSE Ok(BuildClientConfig(Unwrap(service_account_token),
                                  CaData(filesystem), user_agent))

\* the filesystem accesses of from_service_account, in order
AccessTrace(filesystem) ==
    LET token_file == FileOpen(filesystem, SERVICE_ACCOUNT_TOKEN_PATH)
    IN  IF IsErr(token_file)
        THEN << <<"open", SERVICE_ACCOUNT_TOKEN_PATH>> >>
        ELSE IF IsErr(ReadToString(filesystem, SERVICE_ACCOUNT_TOKEN_PATH))
        THEN << <<"open", SERVICE_ACCOUNT_TOKEN_PATH>>,
                <<"read", SERVICE_ACCOUNT_TOKEN_PATH>> >>
        ELSE << <<"open", SERVICE_ACCOUNT_TOKEN_PATH>>,
                <<"read", SERVICE_ACCOUNT_TOKEN_PATH>>,
                <<"exists", SERVICE_ACCOUNT_CA_PATH>> >>

----------------------------------------------------------------------------
(* Inputs *)

FileStatuses == {"NotFound", "PermissionDenied", "InvalidData"}
TokenContents == Texts \cup {"abc123", "abc123\n"}
TokenFiles ==
    {File(st, "") : st \in FileStatuses} \cup {File("Ok", t) : t \in TokenContents}
CaFiles ==
    {File(st, "") : st \in FileStatuses} \cup {File("Ok", "PEM")}
Volumes ==
    {(SERVICE_ACCOUNT_TOKEN_PATH :> tf) @@ (SERVICE_ACCOUNT_CA_PATH :> cf) :
        tf \in TokenFiles, cf \in CaFiles}
UserAgents == Texts

OperatorNames == {"x", "my-operator"}
ParentTypes == {K8sTypeNew("example.com", "v1", "Foo", "foos"), pod}
Namespaces == {"prod"}
Ports == {8080, 65535}
\* pod, and for each of its four fields a type that differs from it in
\* that field alone
ChildTypes ==
    {pod,
     K8sTypeNew("apps", "v1", "Pod", "pods"),
     K8sTypeNew("", "v2", "Pod", "pods"),
     K8sTypeNew("", "v1", "Job", "pods"),
     K8sTypeNew("", "v1", "Pod", "jobs")}

\* The values a component's variables keep while another component runs.
IdleType == ktype = None /\ text = None
IdleClient ==
    /\ fs = (SERVICE_ACCOUNT_TOKEN_PATH :> File("NotFound", ""))
            @@ (SERVICE_ACCOUNT_CA_PATH :> File("NotFound", ""))
    /\ result = <<"NotCalled">>
    /\ io = <<>>
IdleOperator == config = OperatorConfigNew("x", pod) /\ replaced = None

----------------------------------------------------------------------------
(* K8sType: construct a value once, then render it *)

TypeInit == called = NoCall /\ IdleType /\ IdleClient /\ IdleOperator

New(group, version, kind, plural_kind) ==
    /\ ktype = None
    /\ ktype' = Some(K8sTypeNew(group, version, kind, plural_kind))
    /\ called' = Call("new", <<group, version, kind, plural_kind>>)
    /\ UNCHANGED <<text, fs, result, io, config, replaced>>

Pod ==
    /\ ktype = None
    /\ ktype' = Some(pod)
    /\ called' = Call("pod", <<>>)
    /\ UNCHANGED <<text, fs, result, io, config, replaced>>

Service ==
    /\ ktype = None
    /\ ktype' = Some(service)
    /\ called' = Call("service", <<>>)
    /\ UNCHANGED <<text, fs, result, io, config, replaced>>

FormatApiVersion ==
    /\ IsSome(ktype)
    /\ text' = Some(format_api_version(Unwrap(ktype)))
    /\ called' = Call("format_api_version", <<>>)
    /\ UNCHANGED <<ktype, fs, result, io, config, replaced>>

Display ==
    /\ IsSome(ktype)
    /\ text' = Some(fmt(Unwrap(ktype)))
    /\ called' = Call("fmt", <<>>)
    /\ UNCHANGED <<ktype, fs, result, io, config, replaced>>

TypeNext ==
    \/ \E g \in Texts, v \in Texts, k \in Texts, p \in Texts : New(g, v, k, p)
    \/ Pod
    \/ Service
    \/ FormatApiVersion
    \/ Display

TypeSpec == TypeInit /\ [][TypeNext]_vars

----------------------------------------------------------------------------
(* ClientConfig: resolve from whatever the volume holds *)

ClientInit ==
    /\ called = NoCall
    /\ fs \in Volumes
    /\ result = <<"NotCalled">>
    /\ io = <<>>
    /\ IdleType
    /\ IdleOperator

FromServiceAccount(user_agent) ==
    /\ result' = from_service_account(fs, user_agent)
    /\ io' = AccessTrace(fs)
    /\ called' = Call("from_service_account", <<user_agent>>)
    /\ UNCHANGED <<ktype, text, fs, config, replaced>>

ClientNext == \E user_agent \in UserAgents : FromServiceAccount(user_agent)

ClientSpec == ClientInit /\ [][ClientNext]_vars

----------------------------------------------------------------------------
(* OperatorConfig: new, then any chain of setters *)

OperatorInit ==
    /\ \E n \in OperatorNames, p \in ParentTypes :
          /\ config = OperatorConfigNew(n, p)
          /\ called = Call("new", <<n, p>>)
    /\ replaced = None
    /\ IdleType
    /\ IdleClient

WithinNamespace(namespace) ==
    /\ config' = within_namespace(config, namespace)
    /\ called' = Call("within_namespace", <<namespace>>)
    /\ replaced' = None
    /\ UNCHANGED <<ktype, text, fs, result, io>>

WithChild(child_type, child_config) ==
    /\ IsSome(HashMapGet(config.child_types, child_type))
          \/ Cardinality(config.child_types) < MaxChildren
    /\ config' = with_child(config, child_type, child_config)
    /\ called' = Call("with_child", <<child_type, child_config>>)
    /\ replaced' = HashMapGet(config.child_types, child_type)
    /\ UNCHANGED <<ktype, text, fs, result, io>>

ExposeHealth(flag) ==
    /\ config' = expose_health(config, flag)
    /\ called' = Call("expose_health", <<flag>>)
    /\ replaced' = None
    /\ UNCHANGED <<ktype, text, fs, result, io>>

ExposeMetrics(flag) ==
    /\ config' = expose_metrics(config, flag)
    /\ called' = Call("expose_metrics", <<flag>>)
    /\ replaced' = None
    /\ UNCHANGED <<ktype, text, fs, result, io>>

ServerPort(port) ==
    /\ config' = server_port(config, port)
    /\ called' = Call("server_port", <<port>>)
    /\ replaced' = None
    /\ UNCHANGED <<ktype, text, fs, result, io>>

OperatorNext ==
    \/ \E namespace \in Namespaces : WithinNamespace(namespace)
    \/ \E child_type \in ChildTypes, child_config \in ChildConfigs :
          WithChild(child_type, child_config)
    \/ \E flag \in BOOLEAN : ExposeHealth(flag)
    \/ \E flag \in BOOLEAN : ExposeMetrics(flag)
    \/ \E port \in Ports : ServerPort(port)

OperatorSpec == OperatorInit /\ [][OperatorNext]_vars

----------------------------------------------------------------------------
(* Properties of OperatorConfig, under OperatorSpec *)

EntriesFor(map, k) == {e \in map : e.key = k}

\* C1: with_child is last-write-wins per key.  After with_child(k, b) the map
\* holds exactly one entry for k and its value is b; when k already had an
\* entry (the state after an earlier with_child(k, a)), the number of entries
\* is what it was before the call.
C1_WithChildLastWriteWins ==
    [][called'.op = "with_child" =>
        LET k == called'.args[1]
            b == called'.args[2]
        IN  /\ EntriesFor(config'.child_types, k) = {[key |-> k, value |-> b]}
            /\ (EntriesFor(config.child_types, k) # {} =>
                   Cardinality(config'.child_types)
                       = Cardinality(config.child_types))]_vars

\* with_child(k, b) has just overwritten a different value a for the same key
C1_Witness ==
    /\ called.op = "with_child"
    /\ IsSome(replaced)
    /\ Unwrap(replaced) # called.args[2]
    /\ EntriesFor(config.child_types, called.args[1])
          = {[key |-> called.args[1], value |-> called.args[2]]}
    /\ Cardinality(config.child_types) = 2

\* C7: OperatorConfig::new(n, p) stores n and p and sets every default:
\* no children, no namespace, port 8080, metrics and health exposed, and
\* the two default label names.
C7_NewDefaults ==
    called.op = "new" =>
        config = [parent |-> called.args[2],
                  operator_name |-> called.args[1],
                  child_types |-> {},
                  namespace |-> None,
                  server_port |-> 8080,
                  expose_metrics |-> TRUE,
                  expose_health |-> TRUE,
                  tracking_label_name |-> "app.kubernetes.io/instance",
                  ownership_label_name |-> "app.kubernetes.io/managed-by"]

C7_Witness ==
    /\ called = Call("new", <<"my-operator", pod>>)
    /\ config.operator_name = "my-operator"
    /\ config.parent = pod
    /\ config.server_port = 8080
    /\ config.child_types = {}

\* C10: each setter changes only its own target.  within_namespace changes
\* only namespace, expose_health only expose_health, expose_metrics only
\* expose_metrics, server_port only server_port, and with_child(k, c) only
\* the entries for k: the entries of every other key are the same before and
\* after.  So no setter changes parent, operator_name or the label names.
C10_SettersFrame ==
    [][/\ called'.op = "within_namespace" =>
             config' = [config EXCEPT !.namespace = config'.namespace]
       /\ called'.op = "expose_health" =>
             config' = [config EXCEPT !.expose_health = config'.expose_health]
       /\ called'.op = "expose_metrics" =>
             config' = [config EXCEPT !.expose_metrics = config'.expose_metrics]
       /\ called'.op = "server_port" =>
             config' = [config EXCEPT !.server_port = config'.server_port]
       /\ called'.op = "with_child" =>
             /\ config' = [config EXCEPT !.child_types = config'.child_types]
             /\ \A k \in ChildTypes \ {called'.args[1]} :
                   EntriesFor(config'.child_types, k)
                       = EntriesFor(config.child_types, k)
       /\ config'.parent = config.parent
       /\ config'.operator_name = config.operator_name
       /\ config'.tracking_label_name = DEFAULT_TRACKING_LABEL_NAME
       /\ config'.ownership_label_name = DEFAULT_OWNERSHIP_LABEL_NAME]_vars

\* a child was added beside pod under a key that differs from pod in its
\* kind alone, after the namespace and the port were set
C10_Witness ==
    /\ called.op = "with_child"
    /\ called.args[1] = K8sTypeNew("", "v1", "Job", "pods")
    /\ EntriesFor(config.child_types, pod) # {}
    /\ EntriesFor(config.child_types, called.args[1]) # {}
    /\ config.namespace = Some("prod")
    /\ config.server_port = 65535

----------------------------------------------------------------------------
(* Properties of from_service_account, under ClientSpec *)

TokenFile == fs[SERVICE_ACCOUNT_TOKEN_PATH]
CaFile == fs[SERVICE_ACCOUNT_CA_PATH]

\* C2: when the token file cannot be opened or read, from_service_account
\* returns Err with that I/O error (NotFound for a missing file) and never
\* an Ok value, whatever the state of the CA file.
C2_TokenFailurePropagates ==
    (called.op = "from_service_account" /\ TokenFile.status # "Ok") =>
        /\ result = Err(TokenFile.status)
        /\ ~IsOk(result)

\* the token is missing while the CA file is there
C2_Witness ==
    /\ called.op = "from_service_account"
    /\ TokenFile.status = "NotFound"
    /\ CaFile.status = "Ok"
    /\ result = Err("NotFound")

\* C3: with a readable token file of contents t and no CA file, the call
\* returns Ok with credentials Header("Bearer " + t), t in full, ca_data
\* None, the in-cluster endpoint, certificate verification on, no
\* impersonation, and the caller's user agent.
C3_ServiceAccountConfig ==
    (/\ called.op = "from_service_account"
     /\ TokenFile.status = "Ok"
     /\ CaFile.status = "NotFound") =>
        result = Ok([api_server_endpoint |-> "https://kubernetes.default.svc",
                     credentials |-> <<"Header", "Bearer " \o TokenFile.contents>>,
                     ca_data |-> None,
                     user_agent |-> called.args[1],
                     verify_ssl_certs |-> TRUE,
                     impersonate |-> None,
                     impersonate_groups |-> <<>>])

\* a token that ends in a newline, kept in full
C3_Witness ==
    /\ called = Call("from_service_account", <<"a">>)
    /\ TokenFile = File("Ok", "abc123\n")
    /\ CaFile.status = "NotFound"
    /\ IsOk(result)
    /\ Unwrap(result).credentials = <<"Header", "Bearer abc123\n">>
    /\ Unwrap(result).user_agent = "a"

\* C4: in every successful call ca_data is Some(File(the CA path)) exactly
\* when the CA file exists, and None otherwise; the CA file is only checked
\* for existence, never opened or read, and ca_data is never Contents.
C4_CaDataIffExists ==
    IsOk(result) =>
        /\ (CaFile.status # "NotFound") <=>
              (Unwrap(result).ca_data
                  = Some(<<"File",
                           "/var/run/secrets/kubernetes.io/serviceaccount/ca.crt">>))
        /\ (CaFile.status = "NotFound") <=> (Unwrap(result).ca_data = None)
        /\ \A i \in 1..Len(io) :
              io[i][2] = SERVICE_ACCOUNT_CA_PATH => io[i][1] = "exists"
        /\ IsSome(Unwrap(result).ca_data) =>
              Unwrap(Unwrap(result).ca_data)[1] # "Contents"

\* the CA file exists but cannot be opened: it is referenced all the same
C4_Witness ==
    /\ IsOk(result)
    /\ CaFile.status = "PermissionDenied"
    /\ Unwrap(result).ca_data = Some(<<"File", SERVICE_ACCOUNT_CA_PATH>>)
    /\ io[Len(io)] = <<"exists", SERVICE_ACCOUNT_CA_PATH>>

----------------------------------------------------------------------------
(* Properties of K8sType, under TypeSpec *)

\* C5: format_api_version() returns version when group is empty and
\* group + "/" + version otherwise.
C5_FormatApiVersion ==
    called.op = "format_api_version" =>
        LET self == Unwrap(ktype)
        IN  text = Some(IF self.group = ""
                        THEN self.version
                        ELSE self.group \o "/" \o self.version)

C5_Witness ==
    /\ called.op = "format_api_version"
    /\ Unwrap(ktype).group = "a"
    /\ Unwrap(ktype).version = "v1"
    /\ text = Some("a/v1")

\* C6: the Display rendering is format_api_version() followed by "/" and
\* plural_kind, and does not depend on kind.
C6_DisplayIsApiVersionPlural ==
    called.op = "fmt" =>
        LET self == Unwrap(ktype)
        IN  /\ text = Some(format_api_version(self) \o "/" \o self.plural_kind)
            /\ \A kind \in Texts : fmt([self EXCEPT !.kind = kind]) = Unwrap(text)

C6_Witness ==
    /\ called.op = "fmt"
    /\ Unwrap(ktype) = K8sTypeNew("a", "v1", "Pod", "pods")
    /\ text = Some("a/v1/pods")

\* C8: pod() is ("", "v1", "Pod", "pods"), field for field what
\* new("", "v1", "Pod", "pods") builds, and new stores each of its four
\* arguments in the field of the same name.
C8_PodAndNewVerbatim ==
    /\ called.op = "pod" =>
          /\ Unwrap(ktype) = [group |-> "", version |-> "v1",
                              kind |-> "Pod", plural_kind |-> "pods"]
          /\ Unwrap(ktype) = K8sTypeNew("", "v1", "Pod", "pods")
    /\ called.op = "new" =>
          /\ Unwrap(ktype).group = called.args[1]
          /\ Unwrap(ktype).version = called.args[2]
          /\ Unwrap(ktype).kind = called.args[3]
          /\ Unwrap(ktype).plural_kind = called.args[4]

C8_Witness ==
    /\ called = Call("new", <<"", "v1", "Pod", "pods">>)
    /\ ktype = Some(pod)

\* C9 as stated: every K8sType the constructors build has a non-empty
\* version and a non-empty plural_kind.
C9_Original ==
    IsSome(ktype) =>
        /\ Unwrap(ktype).version # ""
        /\ Unwrap(ktype).plural_kind # ""

\* C9 as amended: pod() and service() have a non-empty version and a
\* non-empty plural_kind; new validates nothing, so its result has a
\* non-empty version (plural_kind) exactly when it was given one.
C9_ConstructorsNonEmpty ==
    /\ called.op \in {"pod", "service"} =>
          /\ Unwrap(ktype).version # ""
          /\ Unwrap(ktype).plural_kind # ""
    /\ called.op = "new" =>
          /\ (Unwrap(ktype).version = "") <=> (called.args[2] = "")
          /\ (Unwrap(ktype).plural_kind = "") <=> (called.args[4] = "")

\* new was given an empty version and kept it
C9_Witness ==
    /\ called.op = "new"
    /\ called.args[2] = ""
    /\ called.args[4] = "pods"
    /\ Unwrap(ktype).version = ""
    /\ Unwrap(ktype).plural_kind = "pods"

====
